---------------------------- MODULE Spec2Model ----------------------------
(***************************************************************************)
(* Model of the Minesweeper knowledge engine of src/minesweeper.py:        *)
(* class Sentence (a set of cells and a mine count) and class              *)
(* MinesweeperAI (moves_made, safes, mines, knowledge) with add_knowledge, *)
(* infer_safes_and_mines, mark_mine, mark_safe, make_safe_move and         *)
(* make_random_move.  The board of class Minesweeper is the environment:   *)
(* a fixed mine layout and its nearby_mines count.                         *)
(***************************************************************************)
EXTENDS Integers, Sequences, FiniteSets, TLC

(* ------------------------------ bounds -------------------------------- *)
\* board of the engine instance (MinesweeperAI(height, width))
Height == 2
Width == 5
\* largest number of mines of a layout
MaxMines == 3
\* the mines of a layout lie in the first MineRows rows of the board
MineRows == 1
\* largest number of add_knowledge calls of one behaviour
MaxCalls == 4
\* for the unchecked call boundary: the counts a caller may pass are
\* -1 .. MaxCount, the cells reach one step outside the board, and a
\* behaviour makes at most MaxRawCalls calls
MaxCount == 9
MaxRawCalls == 2
\* for a Sentence object on its own: at most MaxSentenceOps operations
MaxSentenceOps == 2
\* with mark_safe and mark_mine called from outside on any cell: at most
\* MaxCallsWithMarks calls that change the engine
MaxCallsWithMarks == 3
\* a taller board, with one mine in every column and a mine in every row,
\* and at most MaxTallCalls add_knowledge calls
TallHeight == 3
TallWidth == 4
MaxTallCalls == 5

(* ------------------------------ values -------------------------------- *)
\* a cell is (row, column); make_*_move returns a cell or None
None == <<>>

\* the board the engine instance was constructed for
VARIABLES
    height,       \* MinesweeperAI.height
    width         \* MinesweeperAI.width

Cells == (0 .. height - 1) \X (0 .. width - 1)

\* mine layouts of class Minesweeper: sets of distinct board cells
Layouts ==
    {m \in SUBSET {c \in Cells : c[1] < MineRows} : Cardinality(m) <= MaxMines}

\* mine layouts with one mine in every column of the board and a mine in
\* every row
SpreadLayouts ==
    {m \in SUBSET Cells :
        /\ \A j \in 0 .. width - 1 : Cardinality({c \in m : c[2] = j}) = 1
        /\ \A i \in 0 .. height - 1 : \E c \in m : c[1] = i}

\* the cells a careless caller may pass: the board and a rim around it
RawCells == (-1 .. height) \X (-1 .. width)

Range(q) == {q[i] : i \in DOMAIN q}

(* --------------------------- class Sentence --------------------------- *)
Sentence(cells, count) == [cells |-> cells, count |-> count]

\* known_mines without the test that every cell of the sentence is a mine
known_mines_any_count(s) ==
    IF s.count > 0 THEN s.cells ELSE {}

known_mines(s) ==
    IF Cardinality(s.cells) = s.count /\ s.count > 0 THEN s.cells ELSE {}

known_safes(s) ==
    IF s.count = 0 THEN s.cells ELSE {}

\* Sentence.mark_mine without the membership test
Sentence_mark_mine_unguarded(s, cell) ==
    [cells |-> s.cells \ {cell}, count |-> s.count - 1]

Sentence_mark_mine(s, cell) ==
    IF cell \in s.cells
    THEN [cells |-> s.cells \ {cell}, count |-> s.count - 1]
    ELSE s

\* Sentence.mark_safe lowering the count as Sentence.mark_mine does
Sentence_mark_safe_counting(s, cell) ==
    IF cell \in s.cells
    THEN [cells |-> s.cells \ {cell}, count |-> s.count - 1]
    ELSE s

Sentence_mark_safe(s, cell) ==
    IF cell \in s.cells
    THEN [cells |-> s.cells \ {cell}, count |-> s.count]
    ELSE s

(* ------------------------- class MinesweeperAI ------------------------ *)
\* The engine as a value: the four fields the methods read and write.
Engine(mm, sf, mn, kb) ==
    [moves_made |-> mm, safes |-> sf, mines |-> mn, knowledge |-> kb]

NewEngine == Engine({}, {}, {}, <<>>)

mark_mine(e, cell) ==
    [e EXCEPT !.mines = @ \cup {cell},
              !.knowledge = [i \in DOMAIN @ |-> Sentence_mark_mine(@[i], cell)]]

mark_safe(e, cell) ==
    [e EXCEPT !.safes = @ \cup {cell},
              !.knowledge = [i \in DOMAIN @ |-> Sentence_mark_safe(@[i], cell)]]

\* "for cell in S: self.mark_safe(cell)" over a set S fixed before the loop
RECURSIVE mark_safe_each(_, _)
mark_safe_each(e, S) ==
    IF S = {} THEN e
    ELSE LET c == CHOOSE x \in S : TRUE
         IN  mark_safe_each(mark_safe(e, c), S \ {c})

\* "for cell in S: self.mark_mine(cell)" over a set S fixed before the loop
RECURSIVE mark_mine_each(_, _)
mark_mine_each(e, S) ==
    IF S = {} THEN e
    ELSE LET c == CHOOSE x \in S : TRUE
         IN  mark_mine_each(mark_mine(e, c), S \ {c})

\* infer_safes_and_mines from sentence i on; safes and mines are the
\* local accumulators, which are never reset inside the loop
RECURSIVE infer_from(_, _, _, _)
infer_from(e, i, safes, mines) ==
    IF i > Len(e.knowledge) THEN e
    ELSE LET sentence == e.knowledge[i]
             safes2 == safes \cup known_safes(sentence)
             mines2 == mines \cup known_mines(sentence)
         IN  infer_from(mark_mine_each(mark_safe_each(e, safes2), mines2),
                        i + 1, safes2, mines2)

\* infer_safes_and_mines that leaves its loop after the first sentence
infer_first_sentence_only(e) ==
    IF e.knowledge = <<>> THEN e
    ELSE mark_mine_each(mark_safe_each(e, known_safes(e.knowledge[1])),
                        known_mines(e.knowledge[1]))

infer_safes_and_mines(e) == infer_from(e, 1, {}, {})

\* the in-bounds cells within one row and column of cell, cell excluded
Neighbours(cell) ==
    {n \in Cells : /\ n # cell
                   /\ n[1] \in (cell[1] - 1) .. (cell[1] + 1)
                   /\ n[2] \in (cell[2] - 1) .. (cell[2] + 1)}

\* new_sentence that also lowers the count for neighbours known safe
new_sentence_counting_safes(e, cell, count) ==
    Sentence({n \in Neighbours(cell) : n \notin e.safes /\ n \notin e.mines},
             count - Cardinality({n \in Neighbours(cell) :
                                      n \in e.mines \/ n \in e.safes}))

\* the sentence add_knowledge builds for the probed cell: the neighbours
\* that are neither known safe nor known mines, and count less one for
\* every neighbour that is a known mine
new_sentence(e, cell, count) ==
    Sentence({n \in Neighbours(cell) : n \notin e.safes /\ n \notin e.mines},
             count - Cardinality({n \in Neighbours(cell) : n \in e.mines}))

\* scan_pair whose mine rule compares the two counts but not the size of
\* the overlap
scan_pair_equal_counts(sc, i, j) ==
    LET e == sc.e
        sentence_1 == e.knowledge[i]
        sentence_2 == e.knowledge[j]
        new == Sentence(sentence_2.cells \ sentence_1.cells,
                        sentence_2.count - sentence_1.count)
        overlap == sentence_1.cells \cap sentence_2.cells
    IN  IF sentence_1 # sentence_2 /\ sentence_1.cells \subseteq sentence_2.cells
        THEN [new_KB |->
                IF new \notin Range(e.knowledge) /\ new \notin Range(sc.new_KB)
                THEN Append(sc.new_KB, new) ELSE sc.new_KB,
              e |->
                IF overlap # {}
                THEN IF sentence_1.count = 0
                     THEN mark_safe_each(e, overlap)
                     ELSE IF sentence_1.count = sentence_2.count
                          THEN mark_mine_each(e, overlap)
                          ELSE e
                ELSE e]
        ELSE sc

\* scan_pair with the overlap rule outside the subset test, so that it is
\* applied to every pair of different sentences
scan_pair_overlap_unnested(sc, i, j) ==
    LET e == sc.e
        sentence_1 == e.knowledge[i]
        sentence_2 == e.knowledge[j]
        new == Sentence(sentence_2.cells \ sentence_1.cells,
                        sentence_2.count - sentence_1.count)
        overlap == sentence_1.cells \cap sentence_2.cells
    IN  IF sentence_1 # sentence_2
        THEN [new_KB |->
                IF /\ sentence_1.cells \subseteq sentence_2.cells
                   /\ new \notin Range(e.knowledge) /\ new \notin Range(sc.new_KB)
                THEN Append(sc.new_KB, new) ELSE sc.new_KB,
              e |->
                IF overlap # {}
                THEN IF sentence_1.count = 0
                     THEN mark_safe_each(e, overlap)
                     ELSE IF /\ sentence_1.count = sentence_2.count
                             /\ sentence_2.count = Cardinality(overlap)
                          THEN mark_mine_each(e, overlap)
                          ELSE e
                ELSE e]
        ELSE sc

\* scan_pair whose mine rule compares the count of the second sentence
\* with the size of the overlap and leaves the first count out
scan_pair_second_count_only(sc, i, j) ==
    LET e == sc.e
        sentence_1 == e.knowledge[i]
        sentence_2 == e.knowledge[j]
        new == Sentence(sentence_2.cells \ sentence_1.cells,
                        sentence_2.count - sentence_1.count)
        overlap == sentence_1.cells \cap sentence_2.cells
    IN  IF sentence_1 # sentence_2 /\ sentence_1.cells \subseteq sentence_2.cells
        THEN [new_KB |->
                IF new \notin Range(e.knowledge) /\ new \notin Range(sc.new_KB)
                THEN Append(sc.new_KB, new) ELSE sc.new_KB,
              e |->
                IF overlap # {}
                THEN IF sentence_1.count = 0
                     THEN mark_safe_each(e, overlap)
                     ELSE IF sentence_2.count = Cardinality(overlap)
                          THEN mark_mine_each(e, overlap)
                          ELSE e
                ELSE e]
        ELSE sc

\* one iteration of the inner loop of the pairwise scan, on the sentences
\* at positions i and j as they are at that moment; sc carries the engine
\* and the list new_KB
scan_pair(sc, i, j) ==
    LET e == sc.e
        sentence_1 == e.knowledge[i]
        sentence_2 == e.knowledge[j]
        new == Sentence(sentence_2.cells \ sentence_1.cells,
                        sentence_2.count - sentence_1.count)
        overlap == sentence_1.cells \cap sentence_2.cells
    IN  IF sentence_1 # sentence_2 /\ sentence_1.cells \subseteq sentence_2.cells
        THEN [new_KB |->
                IF new \notin Range(e.knowledge) /\ new \notin Range(sc.new_KB)
                THEN Append(sc.new_KB, new) ELSE sc.new_KB,
              e |->
                IF overlap # {}
                THEN IF sentence_1.count = 0
                     THEN mark_safe_each(e, overlap)
                     ELSE IF /\ sentence_1.count = sentence_2.count
                             /\ sentence_2.count = Cardinality(overlap)
                          THEN mark_mine_each(e, overlap)
                          ELSE e
                ELSE e]
        ELSE sc

\* the two nested loops over self.knowledge, from pair (i, j) on
RECURSIVE scan_from(_, _, _)
scan_from(sc, i, j) ==
    LET n == Len(sc.e.knowledge)
    IN  IF i > n THEN sc
        ELSE IF j > n THEN scan_from(sc, i + 1, 1)
        ELSE scan_from(scan_pair(sc, i, j), i, j + 1)

pairwise_scan(e) == scan_from([e |-> e, new_KB |-> <<>>], 1, 1)

\* the iterations the two nested loops make from pair (i, j) on, in order:
\* for each, the positions and the engine and new_KB it starts from
RECURSIVE scan_trace_from(_, _, _)
scan_trace_from(sc, i, j) ==
    LET n == Len(sc.e.knowledge)
    IN  IF i > n THEN <<>>
        ELSE IF j > n THEN scan_trace_from(sc, i + 1, 1)
        ELSE <<[sc |-> sc, i |-> i, j |-> j]>>
                 \o scan_trace_from(scan_pair(sc, i, j), i, j + 1)

\* add_knowledge up to the start of the pairwise scan
before_scan(e, cell, count) ==
    LET e1 == mark_safe([e EXCEPT !.moves_made = @ \cup {cell}], cell)
        e2 == [e1 EXCEPT !.knowledge = Append(@, new_sentence(e1, cell, count))]
    IN  infer_safes_and_mines(e2)

\* the iterations of the pairwise scan of add_knowledge(cell, count)
scan_trace(e, cell, count) ==
    scan_trace_from([e |-> before_scan(e, cell, count), new_KB |-> <<>>], 1, 1)

\* add_knowledge that returns at once for a cell already in moves_made
add_knowledge_once(e, cell, count) ==
    IF cell \in e.moves_made THEN e
    ELSE LET e1 == mark_safe([e EXCEPT !.moves_made = @ \cup {cell}], cell)
             e2 == [e1 EXCEPT !.knowledge =
                                  Append(@, new_sentence(e1, cell, count))]
             e3 == infer_safes_and_mines(e2)
             sc == pairwise_scan(e3)
             e4 == [sc.e EXCEPT !.knowledge = @ \o sc.new_KB]
         IN  infer_safes_and_mines(e4)

\* add_knowledge that drops the sentences derived by the pairwise scan
add_knowledge_no_extend(e, cell, count) ==
    LET e1 == mark_safe([e EXCEPT !.moves_made = @ \cup {cell}], cell)
        e2 == [e1 EXCEPT !.knowledge = Append(@, new_sentence(e1, cell, count))]
        e3 == infer_safes_and_mines(e2)
        sc == pairwise_scan(e3)
    IN  infer_safes_and_mines(sc.e)

\* add_knowledge that makes a second round of scan, append and inference
add_knowledge_two_rounds(e, cell, count) ==
    LET e1 == mark_safe([e EXCEPT !.moves_made = @ \cup {cell}], cell)
        e2 == [e1 EXCEPT !.knowledge = Append(@, new_sentence(e1, cell, count))]
        e3 == infer_safes_and_mines(e2)
        sc == pairwise_scan(e3)
        e4 == [sc.e EXCEPT !.knowledge = @ \o sc.new_KB]
        e5 == infer_safes_and_mines(e4)
        sc2 == pairwise_scan(e5)
        e6 == [sc2.e EXCEPT !.knowledge = @ \o sc2.new_KB]
    IN  infer_safes_and_mines(e6)

\* add_knowledge that appends the probe sentence only if it has cells
add_knowledge_skip_empty(e, cell, count) ==
    LET e1 == mark_safe([e EXCEPT !.moves_made = @ \cup {cell}], cell)
        new == new_sentence(e1, cell, count)
        e2 == IF new.cells = {} THEN e1
              ELSE [e1 EXCEPT !.knowledge = Append(@, new)]
        e3 == infer_safes_and_mines(e2)
        sc == pairwise_scan(e3)
        e4 == [sc.e EXCEPT !.knowledge = @ \o sc.new_KB]
    IN  infer_safes_and_mines(e4)

add_knowledge(e, cell, count) ==
    LET e1 == mark_safe([e EXCEPT !.moves_made = @ \cup {cell}], cell)
        e2 == [e1 EXCEPT !.knowledge = Append(@, new_sentence(e1, cell, count))]
        e3 == infer_safes_and_mines(e2)
        sc == pairwise_scan(e3)
        e4 == [sc.e EXCEPT !.knowledge = @ \o sc.new_KB]
    IN  infer_safes_and_mines(e4)

\* the filter both move selections apply to a candidate cell
passes_filter(e, cell) ==
    \A i \in DOMAIN e.knowledge :
        cell \notin e.knowledge[i].cells \/ e.knowledge[i].count = 0

\* make_safe_move choosing among all of safes, played cells included
make_safe_move_any_safe(e) ==
    LET valid_moves == {c \in e.safes : passes_filter(e, c)}
    IN  IF valid_moves # {} THEN valid_moves ELSE {None}

\* what make_safe_move can return
make_safe_move(e) ==
    LET valid_moves == {c \in e.safes \ e.moves_made : passes_filter(e, c)}
    IN  IF valid_moves # {} THEN valid_moves ELSE {None}

\* make_random_move that does not take the known mines out
make_random_move_with_mines(e) ==
    IF Cardinality(e.mines) + Cardinality(e.moves_made) = height * width
    THEN {None}
    ELSE LET valid_moves ==
                 {c \in Cells \ e.moves_made : passes_filter(e, c)}
         IN  IF valid_moves # {} THEN valid_moves ELSE {None}

\* what make_random_move can return
make_random_move(e) ==
    IF Cardinality(e.mines) + Cardinality(e.moves_made) = height * width
    THEN {None}
    ELSE LET valid_moves ==
                 {c \in (Cells \ e.moves_made) \ e.mines : passes_filter(e, c)}
         IN  IF valid_moves # {} THEN valid_moves ELSE {None}

(* ------------------------ class Minesweeper --------------------------- *)
nearby_mines(board, cell) == Cardinality(Neighbours(cell) \cap board)

(* ------------------------------ state --------------------------------- *)
VARIABLES
    layout,       \* the mines of the board (Minesweeper.mines); fixed
    moves_made,   \* MinesweeperAI.moves_made
    safes,        \* MinesweeperAI.safes
    mines,        \* MinesweeperAI.mines
    knowledge,    \* MinesweeperAI.knowledge, a list of sentences
    call,         \* the last call made on the engine: method and arguments
    ret,          \* what the last call returned
    ncalls,       \* number of calls made so far that count against a bound
    sentence,     \* a Sentence object outside any engine
    sentence0,    \* the value sentence was constructed with
    before        \* the engine as it was when the last call was made

\* what a call on the engine never changes: its board and the mines on it
board == <<height, width, layout>>
engine == <<moves_made, safes, mines, knowledge>>
vars == <<height, width, layout, moves_made, safes, mines, knowledge,
          call, ret, ncalls,
          sentence, sentence0, before>>

ai == Engine(moves_made, safes, mines, knowledge)

SetEngine(e) ==
    /\ moves_made' = e.moves_made
    /\ safes' = e.safes
    /\ mines' = e.mines
    /\ knowledge' = e.knowledge

Call(op, cell, count) == [op |-> op, cell |-> cell, count |-> count]

Init ==
    /\ height = Height
    /\ width = Width
    /\ layout \in Layouts
    /\ moves_made = {}
    /\ safes = {}
    /\ mines = {}
    /\ knowledge = <<>>
    /\ call = Call("init", None, 0)
    /\ ret = None
    /\ ncalls = 0
    /\ sentence = Sentence({}, 0)
    /\ sentence0 = sentence
    /\ before = NewEngine

\* add_knowledge(cell, count) as the game loop calls it: cell is no mine
\* of the board and count is the board's nearby_mines(cell)
Probe(cell) ==
    /\ ncalls < MaxCalls
    /\ cell \notin layout
    /\ SetEngine(add_knowledge(ai, cell, nearby_mines(layout, cell)))
    /\ call' = Call("add_knowledge", cell, nearby_mines(layout, cell))
    /\ ret' = None
    /\ ncalls' = ncalls + 1
    /\ before' = ai
    /\ UNCHANGED <<board, sentence, sentence0>>

\* the game loop probes a cell it has not probed before
AddKnowledge(cell) ==
    /\ cell \notin moves_made
    /\ Probe(cell)

\* the game loop probes a cell again
AddKnowledgeAgain(cell) ==
    /\ cell \in moves_made
    /\ Probe(cell)

\* add_knowledge with whatever cell and count the caller passes
AddKnowledgeRaw(cell, count) ==
    /\ ncalls < MaxRawCalls
    /\ SetEngine(add_knowledge(ai, cell, count))
    /\ call' = Call("add_knowledge", cell, count)
    /\ ret' = None
    /\ ncalls' = ncalls + 1
    /\ before' = ai
    /\ UNCHANGED <<board, sentence, sentence0>>

\* mark_safe(cell) called again for a cell the engine holds as safe
MarkSafe(cell) ==
    /\ cell \in safes
    /\ SetEngine(mark_safe(ai, cell))
    /\ call' = Call("mark_safe", cell, 0)
    /\ ret' = None
    /\ before' = ai
    /\ UNCHANGED <<board, ncalls, sentence, sentence0>>

\* mark_mine(cell) called again for a cell the engine holds as a mine
MarkMine(cell) ==
    /\ cell \in mines
    /\ SetEngine(mark_mine(ai, cell))
    /\ call' = Call("mark_mine", cell, 0)
    /\ ret' = None
    /\ before' = ai
    /\ UNCHANGED <<board, ncalls, sentence, sentence0>>

\* make_safe_move that records the cell it returns as a move made
MakeSafeMove_recording ==
    /\ ret' \in make_safe_move(ai)
    /\ moves_made' = moves_made \cup ({ret'} \ {None})
    /\ call' = Call("make_safe_move", None, 0)
    /\ before' = ai
    /\ UNCHANGED <<board, safes, mines, knowledge, ncalls, sentence, sentence0>>

MakeSafeMove ==
    /\ ret' \in make_safe_move(ai)
    /\ call' = Call("make_safe_move", None, 0)
    /\ before' = ai
    /\ UNCHANGED <<board, moves_made, safes, mines, knowledge, ncalls,
                   sentence, sentence0>>

MakeRandomMove ==
    /\ ret' \in make_random_move(ai)
    /\ call' = Call("make_random_move", None, 0)
    /\ before' = ai
    /\ UNCHANGED <<board, moves_made, safes, mines, knowledge, ncalls,
                   sentence, sentence0>>

\* The engine driven within its contract: every probe is of a new cell.
Next ==
    \/ \E cell \in Cells : AddKnowledge(cell)
    \/ \E cell \in Cells : MarkSafe(cell)
    \/ \E cell \in Cells : MarkMine(cell)
    \/ MakeSafeMove
    \/ MakeRandomMove

Spec == Init /\ [][Next]_vars

\* Any sequence of add_knowledge calls with true counts, repeats included.
NextProbes ==
    \/ \E cell \in Cells : AddKnowledge(cell)
    \/ \E cell \in Cells : AddKnowledgeAgain(cell)

SpecProbes == Init /\ [][NextProbes]_vars

\* The call boundary without a caller's discipline: any cell, any count.
InitRaw ==
    /\ Init
    /\ layout = {}

NextRaw ==
    \E cell \in RawCells : \E count \in -1 .. MaxCount :
        AddKnowledgeRaw(cell, count)

SpecRaw == InitRaw /\ [][NextRaw]_vars

\* mark_safe(cell) and mark_mine(cell) called from outside the engine, on
\* any cell of the board
MarkSafeAny(cell) ==
    /\ ncalls < MaxCallsWithMarks
    /\ SetEngine(mark_safe(ai, cell))
    /\ call' = Call("mark_safe", cell, 0)
    /\ ret' = None
    /\ ncalls' = ncalls + 1
    /\ before' = ai
    /\ UNCHANGED <<board, sentence, sentence0>>

MarkMineAny(cell) ==
    /\ ncalls < MaxCallsWithMarks
    /\ SetEngine(mark_mine(ai, cell))
    /\ call' = Call("mark_mine", cell, 0)
    /\ ret' = None
    /\ ncalls' = ncalls + 1
    /\ before' = ai
    /\ UNCHANGED <<board, sentence, sentence0>>

AddKnowledgeAmongMarks(cell) ==
    /\ ncalls < MaxCallsWithMarks
    /\ AddKnowledge(cell)

\* Any sequence of probes, marks from outside and move selections.
NextMarks ==
    \/ \E cell \in Cells : AddKnowledgeAmongMarks(cell)
    \/ \E cell \in Cells : MarkSafeAny(cell)
    \/ \E cell \in Cells : MarkMineAny(cell)
    \/ MakeSafeMove
    \/ MakeRandomMove

SpecMarks == Init /\ [][NextMarks]_vars

\* The taller board: probes of new cells with true counts, and
\* make_safe_move.
InitTall ==
    /\ height = TallHeight
    /\ width = TallWidth
    /\ layout \in SpreadLayouts
    /\ moves_made = {}
    /\ safes = {}
    /\ mines = {}
    /\ knowledge = <<>>
    /\ call = Call("init", None, 0)
    /\ ret = None
    /\ ncalls = 0
    /\ sentence = Sentence({}, 0)
    /\ sentence0 = sentence
    /\ before = NewEngine

AddKnowledgeTall(cell) ==
    /\ ncalls < MaxTallCalls
    /\ cell \notin layout
    /\ cell \notin moves_made
    /\ SetEngine(add_knowledge(ai, cell, nearby_mines(layout, cell)))
    /\ call' = Call("add_knowledge", cell, nearby_mines(layout, cell))
    /\ ret' = None
    /\ ncalls' = ncalls + 1
    /\ before' = ai
    /\ UNCHANGED <<board, sentence, sentence0>>

NextTall ==
    \/ \E cell \in Cells : AddKnowledgeTall(cell)
    \/ MakeSafeMove

SpecTall == InitTall /\ [][NextTall]_vars

\* count from 0 to their number, and mark_mine and mark_safe called on it.
InitSentence ==
    /\ height = Height
    /\ width = Width
    /\ layout = {}
    /\ moves_made = {}
    /\ safes = {}
    /\ mines = {}
    /\ knowledge = <<>>
    /\ call = Call("init", None, 0)
    /\ ret = None
    /\ ncalls = 0
    /\ \E c \in Cells : \E cells \in SUBSET Neighbours(c) :
           \E count \in 0 .. Cardinality(cells) :
               sentence = Sentence(cells, count)
    /\ sentence0 = sentence
    /\ before = NewEngine

SentenceMarkMine(cell) ==
    /\ ncalls < MaxSentenceOps
    /\ sentence' = Sentence_mark_mine(sentence, cell)
    /\ call' = Call("Sentence.mark_mine", cell, 0)
    /\ ncalls' = ncalls + 1
    /\ UNCHANGED <<board, moves_made, safes, mines, knowledge, ret, sentence0,
                   before>>

SentenceMarkSafe(cell) ==
    /\ ncalls < MaxSentenceOps
    /\ sentence' = Sentence_mark_safe(sentence, cell)
    /\ call' = Call("Sentence.mark_safe", cell, 0)
    /\ ncalls' = ncalls + 1
    /\ UNCHANGED <<board, moves_made, safes, mines, knowledge, ret, sentence0,
                   before>>

NextSentence ==
    \/ \E cell \in Cells : SentenceMarkMine(cell)
    \/ \E cell \in Cells : SentenceMarkSafe(cell)

SpecSentence == InitSentence /\ [][NextSentence]_vars

(* ------------------------------ claims -------------------------------- *)
IsMoveCall(op) == op \in {"make_safe_move", "make_random_move"}

\* C1: after any sequence of add_knowledge calls with true counts, no cell
\* is in both safes and mines.
C1_SafesMinesDisjoint == safes \cap mines = {}

C1_Witness ==
    /\ call.op = "add_knowledge"
    /\ safes \ moves_made # {}
    /\ mines # {}

\* C2: every cell of mines is a mine of the layout, no cell of safes is a
\* mine of the layout, and make_safe_move never returns a mine.
C2_SoundAgainstBoard ==
    /\ mines \subseteq layout
    /\ safes \cap layout = {}
    /\ (call.op = "make_safe_move" /\ ret # None) => ret \notin layout

C2_Witness ==
    /\ call.op = "make_safe_move"
    /\ ret # None
    /\ mines # {}
    /\ Cardinality(layout) > Cardinality(mines)

\* C3: every sentence of knowledge, probe sentence or derived, and after
\* the marks applied to it, has 0 <= count <= |cells|.
C3_CountInRange ==
    \A i \in DOMAIN knowledge :
        /\ 0 <= knowledge[i].count
        /\ knowledge[i].count <= Cardinality(knowledge[i].cells)

C3_Witness ==
    /\ Len(knowledge) > ncalls
    /\ mines # {}
    /\ \E i \in DOMAIN knowledge :
           /\ knowledge[i].count > 0
           /\ knowledge[i].count < Cardinality(knowledge[i].cells)

\* C4: make_random_move returns None only if |mines| + |moves_made| is the
\* number of cells of the board.
C4_RandomMoveUntilFull ==
    (call.op = "make_random_move" /\ ret = None)
        => Cardinality(mines) + Cardinality(moves_made) = height * width

\* C5: make_safe_move returns a cell that is in safes, is not in moves_made
\* and is, for every sentence, outside its cells or in a sentence of count
\* 0; it returns None exactly when there is no such cell.
C5_SafeMoveResult ==
    call.op = "make_safe_move" =>
        LET eligible ==
                {c \in safes \ moves_made :
                    \A i \in DOMAIN knowledge :
                        c \notin knowledge[i].cells \/ knowledge[i].count = 0}
        IN  /\ (ret = None) <=> (eligible = {})
            /\ ret # None => ret \in eligible

C5_Witness ==
    /\ call.op = "make_safe_move"
    /\ ret \in safes
    /\ moves_made # {}

\* C6: a cell returned by make_random_move is on the board, is not in
\* moves_made and is not in mines.
C6_RandomMoveResult ==
    (call.op = "make_random_move" /\ ret # None) =>
        /\ ret \in Cells
        /\ ret \notin moves_made
        /\ ret \notin mines

C6_Witness ==
    /\ call.op = "make_random_move"
    /\ ret \in Cells
    /\ mines # {}
    /\ moves_made # {}

\* C7: make_safe_move and make_random_move leave moves_made, safes, mines
\* and knowledge as they were, whether they return a cell or None.
C7_MovesLeaveEngine ==
    [][IsMoveCall(call'.op) => UNCHANGED engine]_vars

C7_Witness ==
    /\ IsMoveCall(call.op)
    /\ ret = None
    /\ knowledge # <<>>
    /\ mines # {}

\* C8 as claimed: add_knowledge for a cell already in moves_made leaves
\* moves_made, safes, mines and knowledge as they were.
C8_ReprobeNoOp ==
    [][(call'.op = "add_knowledge" /\ call'.cell \in moves_made)
           => UNCHANGED engine]_vars

\* C8 as amended: add_knowledge for a cell already in moves_made leaves
\* moves_made as it was, appends at least one sentence to knowledge, and
\* takes no cell out of safes or mines.
C8_ReprobeAppends ==
    [][(call'.op = "add_knowledge" /\ call'.cell \in moves_made)
           => /\ moves_made' = moves_made
              /\ Len(knowledge') >= Len(knowledge) + 1
              /\ safes \subseteq safes'
              /\ mines \subseteq mines']_vars

C8_Witness ==
    /\ call.op = "add_knowledge"
    /\ ncalls = 2
    /\ moves_made = {call.cell}
    /\ Len(knowledge) >= 2

\* a count no board can report for the cell, or a cell off the board
Malformed(cell, count) ==
    \/ cell \notin Cells
    \/ count < 0
    \/ count > Cardinality(Neighbours(cell))

\* C9: add_knowledge with a malformed count or a cell outside the board
\* is rejected and leaves moves_made, safes, mines and knowledge unchanged.
C9_MalformedRejected ==
    [][(call'.op = "add_knowledge" /\ Malformed(call'.cell, call'.count))
           => UNCHANGED engine]_vars

\* C10: mark_safe of a cell already in safes and mark_mine of a cell
\* already in mines leave safes, mines, moves_made and every sentence of
\* knowledge unchanged.
C10_RemarkNoEffect ==
    [][(\/ call'.op = "mark_safe" /\ call'.cell \in safes
        \/ call'.op = "mark_mine" /\ call'.cell \in mines)
           => UNCHANGED engine]_vars

\* the second of two Sentence operations on one cell, and which came first
SecondOp(first, second) ==
    /\ ncalls = 1
    /\ call.op = first
    /\ call'.op = second
    /\ call'.cell = call.cell

\* C11 as claimed: mark_mine then mark_safe of a cell, and mark_safe then
\* mark_mine of it, both leave the sentence as mark_mine alone leaves it.
C11_EitherOrderAsMarkMine ==
    [][(\/ SecondOp("Sentence.mark_mine", "Sentence.mark_safe")
        \/ SecondOp("Sentence.mark_safe", "Sentence.mark_mine"))
           => sentence' = Sentence_mark_mine(sentence0, call.cell)]_vars

\* C11 as amended: the second operation is a no-op in either order, so
\* mark_mine then mark_safe leaves the cell removed and the count one lower
\* if the cell was in the sentence, and mark_safe then mark_mine leaves the
\* cell removed and the count as it was.
C11_SecondIsNoOp ==
    [][/\ SecondOp("Sentence.mark_mine", "Sentence.mark_safe")
           => /\ sentence' = sentence
              /\ sentence'.cells = sentence0.cells \ {call.cell}
              /\ sentence'.count =
                     IF call.cell \in sentence0.cells
                     THEN sentence0.count - 1 ELSE sentence0.count
       /\ SecondOp("Sentence.mark_safe", "Sentence.mark_mine")
           => /\ sentence' = sentence
              /\ sentence'.cells = sentence0.cells \ {call.cell}
              /\ sentence'.count = sentence0.count]_vars

C11_Witness ==
    /\ ncalls = 2
    /\ call.op = "Sentence.mark_mine"
    /\ call.cell \in sentence0.cells
    /\ sentence.cells = sentence0.cells \ {call.cell}
    /\ sentence.count = sentence0.count

\* C12: when a call on the engine has returned, no sentence of knowledge
\* holds a cell that is in safes or in mines.
C12_NoResolvedCellInKnowledge ==
    \A i \in DOMAIN knowledge :
        knowledge[i].cells \cap (safes \cup mines) = {}

\* the iterations of the pairwise scan of the add_knowledge call that has
\* just returned
LastScan ==
    IF call.op = "add_knowledge"
    THEN scan_trace(before, call.cell, call.count)
    ELSE <<>>

\* of an iteration of the scan: the two sentences as the iteration finds
\* them, the cells they share, and the engine and new_KB it leaves
StepA(st) == st.sc.e.knowledge[st.i]
StepB(st) == st.sc.e.knowledge[st.j]
StepOverlap(st) == StepA(st).cells \cap StepB(st).cells
StepAfter(st) == scan_pair(st.sc, st.i, st.j)

\* the counts for which the overlap rule concludes that the shared cells
\* are mines
MineRuleCounts(st) ==
    /\ StepA(st).count # 0
    /\ StepA(st).count = StepB(st).count
    /\ StepB(st).count = Cardinality(StepOverlap(st))

\* what the overlap rule does to the shared cells of a pair
OverlapRuleApplied(st) ==
    /\ StepA(st).count = 0 => StepOverlap(st) \subseteq StepAfter(st).e.safes
    /\ MineRuleCounts(st) => StepOverlap(st) \subseteq StepAfter(st).e.mines

C15_MineRuleExact ==
    \A st \in Range(LastScan) :
        LET marked == StepAfter(st).e.mines \ st.sc.e.mines
        IN  /\ marked # {} => MineRuleCounts(st)
            /\ marked \subseteq StepOverlap(st)
            /\ marked \subseteq layout

C15_Witness ==
    \E st \in Range(LastScan) :
        /\ StepAfter(st).e.mines # st.sc.e.mines
        /\ StepA(st).cells \subseteq StepB(st).cells

\* the sentence the subset rule derives from the pair of an iteration
StepNew(st) ==
    Sentence(StepB(st).cells \ StepA(st).cells,
             StepB(st).count - StepA(st).count)

\* the engine of the add_knowledge call that has just returned, as it is
\* when the pairwise scan is over and new_KB has been appended to knowledge
LastScanEnd ==
    LET sc == pairwise_scan(before_scan(before, call.cell, call.count))
    IN  [sc.e EXCEPT !.knowledge = @ \o sc.new_KB]

\* engine e holds sentence new, or what marking some of its cells has left
\* of it: the cells gone are in safes or mines, and the count is less one
\* for each cell gone that is in mines
HeldUnlessResolved(new, e) ==
    \E i \in DOMAIN e.knowledge :
        LET s == e.knowledge[i]
            gone == new.cells \ s.cells
        IN  /\ s.cells \subseteq new.cells
            /\ gone \subseteq e.safes \cup e.mines
            /\ s.count = new.count - Cardinality(gone \cap e.mines)

\* C14: for every iteration of the scan on different sentences A and B with
\* the cells of A a subset of the cells of B, the sentence (B.cells -
\* A.cells, B.count - A.count) is in knowledge when the scan is over and when
\* add_knowledge returns, less the cells marked since; and when the two
\* counts are equal every cell of B.cells - A.cells is in safes at return.
C14_SubsetRule ==
    \A st \in Range(LastScan) :
        (StepA(st) # StepB(st) /\ StepA(st).cells \subseteq StepB(st).cells)
            => /\ HeldUnlessResolved(StepNew(st), LastScanEnd)
               /\ HeldUnlessResolved(StepNew(st), ai)
               /\ StepA(st).count = StepB(st).count
                      => StepNew(st).cells \subseteq safes

C14_Witness ==
    \E st \in Range(LastScan) :
        /\ StepA(st) # StepB(st)
        /\ StepA(st).cells \subseteq StepB(st).cells
        /\ StepA(st).count = StepB(st).count
        /\ StepA(st).count > 0
        /\ StepNew(st).cells \cap before.safes = {}
        /\ StepNew(st).cells \subseteq safes


\* one more pass of direct inference and one more pairwise scan on the
\* engine as it is now mark no cell and derive no sentence
OnePassAddsNothing ==
    LET e2 == infer_safes_and_mines(ai)
        sc == pairwise_scan(e2)
    IN  /\ e2.safes = safes /\ e2.mines = mines
        /\ sc.e.safes = safes /\ sc.e.mines = mines
        /\ sc.new_KB = <<>>

\* no sentence of knowledge has count 0 and cells, or as many cells as its
\* count
NoResolvedSentenceLeft ==
    \A i \in DOMAIN knowledge :
        known_safes(knowledge[i]) = {} /\ known_mines(knowledge[i]) = {}

C17_OneRoundPerCall ==
    call.op = "add_knowledge" =>
        LET n == Len(before.knowledge) + 1
            trace == LastScan
            sc == pairwise_scan(before_scan(before, call.cell, call.count))
        IN  /\ Len(trace) = n * n
            /\ \A k \in DOMAIN trace :
                   /\ trace[k].i = ((k - 1) \div n) + 1
                   /\ trace[k].j = ((k - 1) % n) + 1
                   /\ Len(trace[k].sc.e.knowledge) = n
                   /\ Len(StepAfter(trace[k]).e.knowledge) = n
            /\ Len(knowledge) = n + Len(sc.new_KB)
            /\ ai = infer_safes_and_mines(
                        [sc.e EXCEPT !.knowledge = @ \o sc.new_KB])

C17_Witness ==
    /\ call.op = "add_knowledge"
    /\ Len(knowledge) > Len(before.knowledge) + 1
    /\ pairwise_scan(infer_safes_and_mines(ai)).new_KB # <<>>


\* the cells of the board at row and column offsets -1, 0, 1 from cell,
\* cell excluded
MooreNeighbours(cell) ==
    ({<<cell[1] + di, cell[2] + dj>> : di \in -1 .. 1, dj \in -1 .. 1}
         \ {cell}) \cap Cells

\* the probe sentence of the add_knowledge call that has just returned, as
\* it was appended
ProbeSentence ==
    new_sentence(mark_safe([before EXCEPT !.moves_made = @ \cup {call.cell}],
                           call.cell),
                 call.cell, call.count)

\* C18: the probe sentence add_knowledge(cell, count) appends has for cells
\* the neighbours of cell on the board that are neither in safes (to which
\* cell has just been added) nor in mines, and for count the given count
\* less the number of neighbours in mines, with nothing taken off for
\* neighbours in safes; at return it stands at the position it was appended
\* at, less the cells marked during the call.
C18_ProbeSentence ==
    call.op = "add_knowledge" =>
        LET nb == MooreNeighbours(call.cell)
            cells0 == nb \ ((before.safes \cup {call.cell}) \cup before.mines)
            count0 == call.count - Cardinality(nb \cap before.mines)
            n == Len(before.knowledge)
        IN  /\ ProbeSentence = Sentence(cells0, count0)
            /\ Len(knowledge) > n
            /\ knowledge[n + 1].cells = cells0 \ (safes \cup mines)
            /\ knowledge[n + 1].count = count0 - Cardinality(cells0 \cap mines)

C18_Witness ==
    /\ call.op = "add_knowledge"
    /\ MooreNeighbours(call.cell) \cap before.mines # {}
    /\ MooreNeighbours(call.cell) \cap before.safes # {}
    /\ ProbeSentence.cells # {}
    /\ knowledge[Len(before.knowledge) + 1].cells # {}


\* C20: a call on the engine removes nothing.  moves_made, safes and mines
\* after the call include what they were before it; knowledge is at least
\* as long, and each sentence it had stands at its position with cells
\* among those it had; an add_knowledge call makes knowledge longer by at
\* least one; and every cell of moves_made is in safes.
C20_EngineOnlyGrows ==
    /\ before.moves_made \subseteq moves_made
    /\ before.safes \subseteq safes
    /\ before.mines \subseteq mines
    /\ Len(before.knowledge) <= Len(knowledge)
    /\ \A i \in DOMAIN before.knowledge :
           knowledge[i].cells \subseteq before.knowledge[i].cells
    /\ call.op = "add_knowledge" => Len(knowledge) >= Len(before.knowledge) + 1
    /\ moves_made \subseteq safes

C20_Witness ==
    /\ call.op = "add_knowledge"
    /\ ProbeSentence.cells = {}
    /\ Len(knowledge) = Len(before.knowledge) + 1
    /\ before.mines \ layout # {}
    /\ before.knowledge # <<>>


\* C19: when make_safe_move is called after add_knowledge calls with true
\* counts and some cell of safes is not in moves_made, it returns a cell and
\* not None.
C19_SafeMoveWhenSafeKnown ==
    (call.op = "make_safe_move" /\ safes \ moves_made # {}) => ret # None


=============================================================================
